---- MODULE Spec2Model ----
(***************************************************************************)
(* recursive_copy: copy_recursive / copy_dir / copy_one / recreate_symlink *)
(* of src/src/lib.rs over a small POSIX file system.                       *)
(*                                                                         *)
(* A path is a sequence of names, <<>> being the root directory.  The file *)
(* system is a function from the existing paths to their nodes.  Symbolic  *)
(* links carry an absolute target.                                         *)
(***************************************************************************)
EXTENDS Integers, Sequences, FiniteSets, TLC

VARIABLES
    fs,       \* the file system: existing path -> node
    fs0,      \* the file system when copy_recursive was called
    opts,     \* the CopyOptions of the call
    src,      \* the source argument
    dst,      \* the destination argument
    pc,       \* "start", "walk" (inside copy_dir) or "done"
    stack,    \* the active copy_dir calls, outermost first
    visited,  \* the HashSet of canonical directory paths
    summary,  \* the CopySummary
    result,   \* what copy_recursive returned
    cur,      \* src_path, dst_path and kind of the entry handled last
    stderr    \* the lines written by eprintln!

vars == <<fs, fs0, opts, src, dst, pc, stack, visited, summary, result, cur, stderr>>

(***************************************************************************)
(* Bounds of the model.                                                    *)
(***************************************************************************)
MaxNodes == 2       \* entries below the source directory
MaxTreeDepth == 2   \* nesting of the entries below the source directory
MaxDepthOpt == 1    \* largest max_depth option tried
MaxHops == 3        \* symlinks followed in one path resolution

EntryNames == {"a", "b"}

(***************************************************************************)
(* Nodes.                                                                  *)
(***************************************************************************)
NoPath == <<"-">>

SrcFileMode == "0600"
SrcDirMode == "0700"
NewFileMode == "0644"
NewDirMode == "0755"
LinkMode == "0777"

FileNode(c, m, r) ==
    [kind |-> "file", content |-> c, mode |-> m, target |-> NoPath, readable |-> r]
DirNode(m) ==
    [kind |-> "dir", content |-> <<>>, mode |-> m, target |-> NoPath, readable |-> TRUE]
LinkNode(t) ==
    [kind |-> "symlink", content |-> <<>>, mode |-> LinkMode, target |-> t, readable |-> TRUE]
SpecialNode ==
    [kind |-> "special", content |-> <<>>, mode |-> SrcFileMode, target |-> NoPath, readable |-> TRUE]

Parent(p) == SubSeq(p, 1, Len(p) - 1)
Join(p, n) == Append(p, n)
Min(a, b) == IF a < b THEN a ELSE b

AddNode(f, q, n) == [x \in DOMAIN f \cup {q} |-> IF x = q THEN n ELSE f[x]]
DelNode(f, q) == [x \in DOMAIN f \ {q} |-> f[x]]

(***************************************************************************)
(* Path resolution.  Walk resolves rest below the resolved directory done, *)
(* following a symlink in the last component only when followLast.  It     *)
(* yields NoPath when a component other than the last is missing or is no  *)
(* directory, or when too many links are met; otherwise the resolved path, *)
(* whose parent exists and which itself may or may not exist.              *)
(***************************************************************************)
RECURSIVE Walk(_, _, _, _, _)
Walk(f, done, rest, followLast, fuel) ==
    IF rest = <<>> THEN done
    ELSE LET p == Append(done, Head(rest))
             last == Len(rest) = 1
         IN IF p \notin DOMAIN f THEN (IF last THEN p ELSE NoPath)
            ELSE IF f[p].kind = "symlink" /\ (~last \/ followLast)
                 THEN IF fuel = 0 THEN NoPath
                      ELSE Walk(f, <<>>, f[p].target \o Tail(rest), followLast, fuel - 1)
            ELSE IF last THEN p
            ELSE IF f[p].kind = "dir" THEN Walk(f, p, Tail(rest), followLast, fuel)
            ELSE NoPath

Stat(f, p) == Walk(f, <<>>, p, TRUE, MaxHops)
LStat(f, p) == Walk(f, <<>>, p, FALSE, MaxHops)

Exists(f, p) == Stat(f, p) \in DOMAIN f
IsDir(f, p) == Exists(f, p) /\ f[Stat(f, p)].kind = "dir"
IsFile(f, p) == Exists(f, p) /\ f[Stat(f, p)].kind = "file"
LExists(f, p) == LStat(f, p) \in DOMAIN f
Canonicalize(f, p) == IF Exists(f, p) THEN Stat(f, p) ELSE NoPath

(***************************************************************************)
(* The file-system calls the copy makes.  Each yields [ok, fs]: whether    *)
(* the call succeeded and the file system it leaves.                       *)
(***************************************************************************)
Mkdir(f, p) ==
    LET q == LStat(f, p)
    IN IF q # NoPath /\ q \notin DOMAIN f
       THEN [ok |-> TRUE, fs |-> AddNode(f, q, DirNode(NewDirMode))]
       ELSE [ok |-> FALSE, fs |-> f]

\* fs::create_dir_all: mkdir; when a parent is missing, the parents first.
RECURSIVE CreateDirAll(_, _)
CreateDirAll(f, p) ==
    IF p = <<>> THEN [ok |-> TRUE, fs |-> f]
    ELSE LET m == Mkdir(f, p)
         IN IF m.ok THEN m
            ELSE IF LStat(f, p) # NoPath THEN [ok |-> IsDir(f, p), fs |-> f]
            ELSE LET r == CreateDirAll(f, Parent(p))
                 IN IF ~r.ok THEN [ok |-> FALSE, fs |-> f]
                    ELSE LET m2 == Mkdir(r.fs, p)
                         IN IF m2.ok THEN m2 ELSE [ok |-> IsDir(r.fs, p), fs |-> r.fs]

\* fs::remove_file: unlink, which does not follow a final symlink.
RemoveFile(f, p) ==
    LET q == LStat(f, p)
    IN IF q \in DOMAIN f /\ f[q].kind # "dir"
       THEN [ok |-> TRUE, fs |-> DelNode(f, q)]
       ELSE [ok |-> FALSE, fs |-> f]

\* unix_fs::symlink: fails when anything, a dangling link included, is at p.
Symlink(f, t, p) ==
    LET q == LStat(f, p)
    IN IF q # NoPath /\ q \notin DOMAIN f
       THEN [ok |-> TRUE, fs |-> AddNode(f, q, LinkNode(t))]
       ELSE [ok |-> FALSE, fs |-> f]

\* fs::File::open for reading.
CanOpen(f, p) == IsFile(f, p) /\ f[Stat(f, p)].readable

\* fs::File::create: open for writing, created or truncated, links followed.
FileCreate(f, p) ==
    LET q == Stat(f, p)
    IN IF q = NoPath THEN [ok |-> FALSE, fs |-> f]
       ELSE IF q \notin DOMAIN f
       THEN [ok |-> TRUE, fs |-> AddNode(f, q, FileNode(<<>>, NewFileMode, TRUE))]
       ELSE IF f[q].kind = "file"
       THEN [ok |-> TRUE, fs |-> [f EXCEPT ![q].content = <<>>]]
       ELSE [ok |-> FALSE, fs |-> f]

\* The read/write loop: chunks of buf bytes until a read returns 0 bytes.
RECURSIVE ReadLoop(_, _, _)
ReadLoop(input, output, buf) ==
    LET n == Min(buf, Len(input))
    IN IF n = 0 THEN output
       ELSE ReadLoop(SubSeq(input, n + 1, Len(input)), output \o SubSeq(input, 1, n), buf)

\* CopiedMode without the set_permissions call.
CopiedMode_Dropped(f, s, d, o) == f[Stat(f, d)].mode

\* The permission bits the copy gives dst: those of src when preserved.
CopiedMode(f, s, d, o) ==
    IF o.preserve_permissions THEN f[Stat(f, s)].mode ELSE f[Stat(f, d)].mode

\* copy_one from File::open on: [ok, fs, bytes].
Transfer(f, s, d, o) ==
    IF ~CanOpen(f, s) THEN [ok |-> FALSE, fs |-> f, bytes |-> 0]
    ELSE LET c == FileCreate(f, d)
         IN IF ~c.ok THEN [ok |-> FALSE, fs |-> f, bytes |-> 0]
            ELSE LET q == Stat(c.fs, d)
                     data == ReadLoop(f[Stat(f, s)].content, <<>>, o.buffer_size)
                     g == [c.fs EXCEPT ![q].content = data]
                 IN [ok |-> TRUE,
                     fs |-> [g EXCEPT ![q].mode = CopiedMode(g, s, d, o)],
                     bytes |-> Len(data)]

\* copy_one: [ok, fs, bytes].
CopyOne(f, s, d, o) ==
    IF Exists(f, d)
    THEN IF o.overwrite
         THEN LET r == RemoveFile(f, d)
              IN IF r.ok THEN Transfer(r.fs, s, d, o)
                 ELSE [ok |-> FALSE, fs |-> f, bytes |-> 0]
         ELSE [ok |-> TRUE, fs |-> f, bytes |-> 0]
    ELSE IF o.create_dest
         THEN LET r == CreateDirAll(f, Parent(d))
              IN IF r.ok THEN Transfer(r.fs, s, d, o)
                 ELSE [ok |-> FALSE, fs |-> f, bytes |-> 0]
         ELSE Transfer(f, s, d, o)

\* recreate_symlink: [ok, fs, errors, msgs]; ok is FALSE when it returns Err.
RecreateSymlink(f, s, d, o) ==
    LET target == f[LStat(f, s)].target
        make(g) ==
            LET y == Symlink(g, target, d)
            IN IF y.ok THEN [ok |-> TRUE, fs |-> y.fs, errors |-> 0, msgs |-> {}]
               ELSE [ok |-> TRUE, fs |-> g, errors |-> 1,
                     msgs |-> {[msg |-> "erro recriando symlink", path |-> d]}]
    IN IF Exists(f, d)
       THEN IF o.overwrite
            THEN LET r == RemoveFile(f, d)
                 IN IF r.ok THEN make(r.fs)
                    ELSE [ok |-> FALSE, fs |-> f, errors |-> 0, msgs |-> {}]
            ELSE [ok |-> TRUE, fs |-> f, errors |-> 0, msgs |-> {}]
       ELSE make(f)

(***************************************************************************)
(* copy_dir.                                                               *)
(***************************************************************************)
Ok == [kind |-> "Ok", path |-> NoPath]
Pending == [kind |-> "Pending", path |-> NoPath]
Err(k, p) == [kind |-> k, path |-> p]
IoErr == Err("Io", NoPath)

NoEntry == [src_path |-> NoPath, dst_path |-> NoPath, kind |-> "none"]

\* TooDeep refusing one level too early.
TooDeep_OffByOne(depth, o) == depth >= o.max_depth

\* The depth test that opens copy_dir.
TooDeep(depth, o) == depth > o.max_depth

\* The names fs::read_dir yields for directory s.
ReadDir(f, s) ==
    {p[Len(p)] : p \in {x \in DOMAIN f : Len(x) > 0 /\ Parent(x) = Stat(f, s)}}

\* The head of copy_dir, up to the listing of the directory:
\* [err, visited, frame], err being Ok when the loop over the entries starts.
EnterDir(f, s, d, depth, vis, o) ==
    IF TooDeep(depth, o)
    THEN [err |-> Err("DepthExceeded", s), visited |-> vis, frame |-> <<>>]
    ELSE LET real_src == Canonicalize(f, s)
         IN IF real_src = NoPath
            THEN [err |-> IoErr, visited |-> vis, frame |-> <<>>]
            ELSE IF real_src \in vis
            THEN [err |-> Err("SymlinkLoop", real_src), visited |-> vis, frame |-> <<>>]
            ELSE [err |-> Ok, visited |-> vis \cup {real_src},
                  frame |-> [src |-> s, dst |-> d, depth |-> depth,
                             real |-> real_src, todo |-> ReadDir(f, s)]]

Top == stack[Len(stack)]
SrcPath(n) == Join(Top.src, n)
DstPath(n) == Join(Top.dst, n)
EntryKind(n) == fs[LStat(fs, SrcPath(n))].kind
Consumed(n) == [stack EXCEPT ![Len(stack)].todo = @ \ {n}]
Entry(n) == [src_path |-> SrcPath(n), dst_path |-> DstPath(n), kind |-> EntryKind(n)]

\* copy_recursive returns e: a `?` leaves every active copy_dir call.
Return(e) ==
    /\ pc' = "done"
    /\ stack' = <<>>
    /\ result' = e

\* The call of copy_dir from an entry of the running one.
Recurse(f, n, s) ==
    LET e == EnterDir(f, s, DstPath(n), Top.depth + 1, visited, opts)
    IN /\ fs' = f
       /\ visited' = e.visited
       /\ IF e.err = Ok
          THEN /\ stack' = Append(Consumed(n), e.frame)
               /\ UNCHANGED <<pc, result>>
          ELSE Return(e.err)

\* The top-level call, up to the first entry of the source directory.
CopyRecursive ==
    /\ pc = "start"
    /\ UNCHANGED <<fs0, opts, src, dst, cur, stderr>>
    /\ IF ~Exists(fs, src)
       THEN Return(Err("SrcNotFound", src)) /\ UNCHANGED <<fs, visited, summary>>
       ELSE IF IsFile(fs, src)
       THEN LET r == CopyOne(fs, src, dst, opts)
            IN /\ fs' = r.fs
               /\ UNCHANGED visited
               /\ IF r.ok
                  THEN /\ Return(Ok)
                       /\ summary' = [bytes_copied |->
                                         IF Exists(r.fs, dst)
                                         THEN Len(r.fs[Stat(r.fs, dst)].content) ELSE 0,
                                      errors |-> 0]
                  ELSE Return(IoErr) /\ UNCHANGED summary
       ELSE IF ~IsDir(fs, src)
       THEN Return(Err("NotSupported", src)) /\ UNCHANGED <<fs, visited, summary>>
       ELSE IF Exists(fs, dst) /\ ~IsDir(fs, dst)
       THEN Return(Err("DestNotDir", dst)) /\ UNCHANGED <<fs, visited, summary>>
       ELSE LET c == IF opts.create_dest THEN CreateDirAll(fs, dst)
                     ELSE [ok |-> TRUE, fs |-> fs]
            IN IF ~c.ok
               THEN Return(IoErr) /\ UNCHANGED <<fs, visited, summary>>
               ELSE LET e == EnterDir(c.fs, src, dst, 0, {}, opts)
                    IN /\ fs' = c.fs
                       /\ visited' = e.visited
                       /\ UNCHANGED summary
                       /\ IF e.err = Ok
                          THEN /\ pc' = "walk"
                               /\ stack' = <<e.frame>>
                               /\ UNCHANGED result
                          ELSE Return(e.err)

\* An entry that is a directory.
EntryDir(n) ==
    /\ pc = "walk" /\ stack # <<>> /\ n \in Top.todo
    /\ EntryKind(n) = "dir"
    /\ cur' = Entry(n)
    /\ UNCHANGED <<fs0, opts, src, dst, summary, stderr>>
    /\ LET c == IF ~Exists(fs, DstPath(n)) THEN CreateDirAll(fs, DstPath(n))
                ELSE [ok |-> TRUE, fs |-> fs]
       IN IF ~c.ok
          THEN Return(IoErr) /\ UNCHANGED <<fs, visited>>
          ELSE Recurse(c.fs, n, SrcPath(n))

\* An entry that is a regular file.
EntryFile(n) ==
    /\ pc = "walk" /\ stack # <<>> /\ n \in Top.todo
    /\ EntryKind(n) = "file"
    /\ cur' = Entry(n)
    /\ stack' = Consumed(n)
    /\ UNCHANGED <<fs0, opts, src, dst, pc, visited, result>>
    /\ LET r == CopyOne(fs, SrcPath(n), DstPath(n), opts)
       IN /\ fs' = r.fs
          /\ IF r.ok
             THEN /\ summary' = [summary EXCEPT !.bytes_copied = @ + r.bytes]
                  /\ UNCHANGED stderr
             ELSE /\ summary' = [summary EXCEPT !.errors = @ + 1]
                  /\ stderr' = stderr \cup {[msg |-> "falha copiando", path |-> SrcPath(n)]}

\* An entry that is a symlink, with follow_symlinks set.
EntrySymlinkFollow(n) ==
    /\ pc = "walk" /\ stack # <<>> /\ n \in Top.todo
    /\ EntryKind(n) = "symlink"
    /\ opts.follow_symlinks
    /\ cur' = Entry(n)
    /\ UNCHANGED <<fs0, opts, src, dst>>
    /\ LET target == Canonicalize(fs, SrcPath(n))
       IN IF target = NoPath
          THEN /\ summary' = [summary EXCEPT !.errors = @ + 1]
               /\ stderr' = stderr \cup
                     {[msg |-> "erro resolvendo symlink", path |-> SrcPath(n)]}
               /\ stack' = Consumed(n)
               /\ UNCHANGED <<fs, pc, visited, result>>
          ELSE IF IsFile(fs, target)
          THEN LET r == CopyOne(fs, target, DstPath(n), opts)
               IN /\ fs' = r.fs
                  /\ UNCHANGED <<visited, stderr>>
                  /\ IF r.ok
                     THEN /\ summary' = [summary EXCEPT !.bytes_copied = @ + r.bytes]
                          /\ stack' = Consumed(n)
                          /\ UNCHANGED <<pc, result>>
                     ELSE Return(IoErr) /\ UNCHANGED summary
          ELSE IF IsDir(fs, target)
          THEN Recurse(fs, n, target) /\ UNCHANGED <<summary, stderr>>
          ELSE /\ stack' = Consumed(n)
               /\ UNCHANGED <<fs, pc, visited, result, summary, stderr>>

\* An entry that is a symlink, with follow_symlinks unset.
EntrySymlinkRecreate(n) ==
    /\ pc = "walk" /\ stack # <<>> /\ n \in Top.todo
    /\ EntryKind(n) = "symlink"
    /\ ~opts.follow_symlinks
    /\ cur' = Entry(n)
    /\ UNCHANGED <<fs0, opts, src, dst, visited>>
    /\ LET r == RecreateSymlink(fs, SrcPath(n), DstPath(n), opts)
       IN /\ fs' = r.fs
          /\ summary' = [summary EXCEPT !.errors = @ + r.errors]
          /\ stderr' = stderr \cup r.msgs
          /\ IF r.ok
             THEN stack' = Consumed(n) /\ UNCHANGED <<pc, result>>
             ELSE Return(IoErr)

\* An entry that is neither directory, regular file nor symlink.
EntrySpecial(n) ==
    /\ pc = "walk" /\ stack # <<>> /\ n \in Top.todo
    /\ EntryKind(n) = "special"
    /\ cur' = Entry(n)
    /\ summary' = [summary EXCEPT !.errors = @ + 1]
    /\ stderr' = stderr \cup {[msg |-> "ignorado tipo especial", path |-> SrcPath(n)]}
    /\ stack' = Consumed(n)
    /\ UNCHANGED <<fs, fs0, opts, src, dst, pc, visited, result>>

\* The end of the loop of a copy_dir call: Ok(()) to its caller.
CopyDirReturn ==
    /\ pc = "walk" /\ stack # <<>> /\ Top.todo = {}
    /\ stack' = SubSeq(stack, 1, Len(stack) - 1)
    /\ IF Len(stack) = 1
       THEN pc' = "done" /\ result' = Ok
       ELSE UNCHANGED <<pc, result>>
    /\ UNCHANGED <<fs, fs0, opts, src, dst, visited, summary, cur, stderr>>

(***************************************************************************)
(* The calls tried: a source that is missing, a regular file, a special    *)
(* file or a directory holding a tree of at most MaxNodes entries, a       *)
(* destination in one of six states, and every option set.                 *)
(***************************************************************************)
SrcRoot == <<"s">>
DstRoot == <<"d">>
Outside == <<"o">>
OutsideFile == <<"o", "f">>
Missing == <<"z">>
OldContent == <<"old">>

LinkTargets == {SrcRoot, Join(SrcRoot, "a"), OutsideFile}

RelPaths == UNION {[1..k -> EntryNames] : k \in 1..MaxTreeDepth}

IsPrefix(p, q) == Len(p) < Len(q) /\ SubSeq(q, 1, Len(p)) = p

Shapes ==
    {P \in SUBSET RelPaths :
        /\ Cardinality(P) <= MaxNodes
        /\ \A p \in P : Len(p) > 1 => Parent(p) \in P}

Choices ==
    [k : {"file", "ufile", "dir", "special"}, t : {NoPath}]
        \cup [k : {"symlink"}, t : LinkTargets]

Trees ==
    UNION {{T \in [P -> Choices] :
               \A p \in P : (\E q \in P : IsPrefix(p, q)) => T[p].k = "dir"} :
           P \in Shapes}

NodeOf(c, p) ==
    CASE c.k = "file" -> FileNode(p, SrcFileMode, TRUE)
      [] c.k = "ufile" -> FileNode(p, SrcFileMode, FALSE)
      [] c.k = "dir" -> DirNode(SrcDirMode)
      [] c.k = "special" -> SpecialNode
      [] c.k = "symlink" -> LinkNode(c.t)

Merge(f, g) == [x \in DOMAIN f \cup DOMAIN g |-> IF x \in DOMAIN g THEN g[x] ELSE f[x]]

OutsideFs == (Outside :> DirNode(NewDirMode)) @@ (OutsideFile :> FileNode(OutsideFile, NewFileMode, TRUE))

SourceFs ==
    {<<>>,
     SrcRoot :> FileNode(SrcRoot, SrcFileMode, TRUE),
     SrcRoot :> SpecialNode}
    \cup {Merge(SrcRoot :> DirNode(SrcDirMode),
                [q \in {SrcRoot \o p : p \in DOMAIN T} |->
                    NodeOf(T[SubSeq(q, 2, Len(q))], q)]) : T \in Trees}

DestFs ==
    LET d == DstRoot :> DirNode(NewDirMode)
        a == Join(DstRoot, "a")
    IN {<<>>,
        d,
        DstRoot :> FileNode(OldContent, NewFileMode, TRUE),
        Merge(d, a :> FileNode(OldContent, NewFileMode, TRUE)),
        Merge(d, a :> LinkNode(Missing)),
        Merge(d, a :> DirNode(NewDirMode))}

BufferSize == 8 * 1024

\* The options copy_recursive reads, the two it never reads at their defaults.
OptionSets ==
    [overwrite : BOOLEAN, follow_symlinks : BOOLEAN, create_dest : BOOLEAN,
     preserve_permissions : BOOLEAN, max_depth : 0..MaxDepthOpt,
     buffer_size : {BufferSize},
     content_only : {FALSE}, restrict_symlinks : {FALSE}]

\* The options of options.rs, create_dest and preserve_permissions at their defaults.
DeclaredOptionSets ==
    [overwrite : BOOLEAN, follow_symlinks : BOOLEAN, create_dest : {TRUE},
     preserve_permissions : {TRUE}, max_depth : 0..MaxDepthOpt,
     buffer_size : {BufferSize},
     content_only : BOOLEAN, restrict_symlinks : BOOLEAN]

InitWith(O) ==
    /\ \E s \in SourceFs, d \in DestFs : fs = Merge(Merge(OutsideFs, s), d)
    /\ fs0 = fs
    /\ opts \in O
    /\ src = SrcRoot
    /\ dst = DstRoot
    /\ pc = "start"
    /\ stack = <<>>
    /\ visited = {}
    /\ summary = [bytes_copied |-> 0, errors |-> 0]
    /\ result = Pending
    /\ cur = NoEntry
    /\ stderr = {}

Init == InitWith(OptionSets)
InitDeclared == InitWith(DeclaredOptionSets)

Next ==
    \/ CopyRecursive
    \/ \E n \in EntryNames : EntryDir(n)
    \/ \E n \in EntryNames : EntryFile(n)
    \/ \E n \in EntryNames : EntrySymlinkFollow(n)
    \/ \E n \in EntryNames : EntrySymlinkRecreate(n)
    \/ \E n \in EntryNames : EntrySpecial(n)
    \/ CopyDirReturn

Spec == Init /\ [][Next]_vars
SpecDeclared == InitDeclared /\ [][Next]_vars

(***************************************************************************)
(* Vocabulary of the properties.                                           *)
(***************************************************************************)
Done == pc = "done"
DirCall == IsDir(fs0, src)
DestWasDir == IsDir(fs0, dst)
DestWasAbsent == ~LExists(fs0, dst)
DestWasEmpty == DestWasDir /\ ~\E p \in DOMAIN fs0 : IsPrefix(dst, p)

\* The entries of the source tree, and the path each is copied to below r.
SrcEntries == {p \in DOMAIN fs0 : IsPrefix(src, p)}
Under(r, p) == r \o SubSeq(p, Len(src) + 1, Len(p))
DstOf(p) == Under(dst, p)

\* Nesting depth of the deepest directory of the source tree; the source is at 0.
DirDepths == {0} \cup {Len(p) - Len(src) : p \in {x \in SrcEntries : fs0[x].kind = "dir"}}
TreeDepth == CHOOSE m \in DirDepths : \A k \in DirDepths : k <= m

\* No entry of the source tree is a symlink that the walk follows.
NoLinkFollowed ==
    ~opts.follow_symlinks \/ \A p \in SrcEntries : fs0[p].kind # "symlink"

OnStack == {stack[i].real : i \in 1..Len(stack)}
Handled == cur' # cur

\* Entry p of the source has a faithful copy at q.
SameFile(p, q) ==
    /\ LExists(fs, q) /\ fs[q].kind = "file"
    /\ fs[q].content = fs0[p].content
SameLink(p, q) ==
    /\ LExists(fs, q) /\ fs[q].kind = "symlink"
    /\ fs[q].target = fs0[p].target
SameDir(p, q) == LExists(fs, q) /\ fs[q].kind = "dir"

(***************************************************************************)
(* C1                                                                      *)
(***************************************************************************)
\* C1 as stated: copying any source tree with overwrite=true into an empty
\* destination succeeds and gives every directory, regular file and (when not
\* followed) symlink a counterpart of the same kind, content and permission bits.
C1_AsStated ==
    (Done /\ DirCall /\ DestWasEmpty /\ opts.overwrite) =>
        /\ result = Ok
        /\ \A p \in SrcEntries :
              CASE fs0[p].kind = "dir" ->
                      SameDir(p, DstOf(p)) /\ fs[DstOf(p)].mode = fs0[p].mode
                [] fs0[p].kind = "file" ->
                      SameFile(p, DstOf(p)) /\ fs[DstOf(p)].mode = fs0[p].mode
                [] fs0[p].kind = "symlink" /\ ~opts.follow_symlinks ->
                      SameLink(p, DstOf(p))
                [] OTHER -> TRUE

\* C1 amended: with overwrite=true and an empty destination the call succeeds
\* whenever no symlink is followed and no directory is nested deeper than
\* max_depth; and whenever it succeeds every directory has a directory at the
\* same relative path (with the permission bits of a new directory, not the
\* source's), every readable regular file a regular file of the same content,
\* with the source's permission bits when preserve_permissions is set, and
\* every symlink that is not followed a symlink to the same target.
C1_Copy ==
    (Done /\ DirCall /\ DestWasEmpty /\ opts.overwrite) =>
        /\ (NoLinkFollowed /\ TreeDepth <= opts.max_depth) => result = Ok
        /\ result = Ok =>
              \A p \in SrcEntries :
                 CASE fs0[p].kind = "dir" ->
                         SameDir(p, DstOf(p)) /\ fs[DstOf(p)].mode = NewDirMode
                   [] fs0[p].kind = "file" /\ fs0[p].readable ->
                         /\ SameFile(p, DstOf(p))
                         /\ fs[DstOf(p)].mode =
                               IF opts.preserve_permissions THEN fs0[p].mode
                               ELSE NewFileMode
                   [] fs0[p].kind = "symlink" /\ ~opts.follow_symlinks ->
                         SameLink(p, DstOf(p))
                   [] OTHER -> TRUE

\* A finished copy of a directory holding a regular file into an empty destination.
C1_Witness ==
    /\ Done /\ DirCall /\ DestWasEmpty /\ opts.overwrite /\ result = Ok
    /\ opts.preserve_permissions
    /\ \E p \in SrcEntries :
          /\ Len(p) = Len(src) + 2
          /\ fs0[p].kind = "file" /\ fs0[p].readable
          /\ SameFile(p, DstOf(p))

(***************************************************************************)
(* C2                                                                      *)
(***************************************************************************)
\* The entries directly below the source that a successful copy reproduces.
TopCopied == {p \in SrcEntries : Len(p) = Len(src) + 1 /\
                 (fs0[p].kind = "dir" \/ (fs0[p].kind = "file" /\ fs0[p].readable))}

\* C2: copying a directory into an existing directory places its entries
\* under destination/basename(source) and not directly under the destination
\* when content_only is unset, directly under the destination when it is
\* set; a missing destination is created and receives the entries directly.
C2_CopyRoot ==
    (Done /\ DirCall /\ result = Ok) =>
        IF DestWasDir
        THEN IF opts.content_only
             THEN \A p \in TopCopied : LExists(fs, DstOf(p))
             ELSE \A p \in TopCopied :
                     /\ LExists(fs, Under(Join(dst, src[Len(src)]), p))
                     /\ ~LExists(fs0, DstOf(p)) => ~LExists(fs, DstOf(p))
        ELSE DestWasAbsent =>
                IsDir(fs, dst) /\ \A p \in TopCopied : LExists(fs, DstOf(p))

(***************************************************************************)
(* C3                                                                      *)
(***************************************************************************)
\* C3: copying a readable regular file onto an existing directory succeeds,
\* leaves the directory a directory and puts the copy at
\* directory/basename(file); copying it onto a path that does not exist
\* succeeds and puts the copy at that path; both for every value of overwrite.
C3_SingleFile ==
    (Done /\ IsFile(fs0, src) /\ fs0[src].readable) =>
        IF DestWasDir
        THEN /\ result = Ok
             /\ IsDir(fs, dst)
             /\ SameFile(src, Join(dst, src[Len(src)]))
        ELSE DestWasAbsent => result = Ok /\ SameFile(src, dst)

(***************************************************************************)
(* C4                                                                      *)
(***************************************************************************)
\* The entry handled in this step, a readable regular file or a symlink that
\* is not followed, is copied onto a path that holds a file or a symlink
\* (dangling or not).
OntoExisting ==
    /\ Handled
    /\ \/ cur'.kind = "file" /\ fs[cur'.src_path].readable
       \/ cur'.kind = "symlink" /\ ~opts.follow_symlinks
    /\ LExists(fs, cur'.dst_path)
    /\ fs[LStat(fs, cur'.dst_path)].kind \in {"file", "symlink"}

\* C4: with overwrite=false, handling an entry whose destination path already
\* holds a file or a symlink, one whose target is missing included, changes
\* nothing in the file system, counts no error and does not end the call.
C4_NoOverwrite ==
    [][(~opts.overwrite /\ OntoExisting) =>
          /\ fs' = fs
          /\ summary'.errors = summary.errors
          /\ result' = result]_vars

(***************************************************************************)
(* C5                                                                      *)
(***************************************************************************)
\* The entry handled in this step is a followed symlink that resolves to a
\* directory whose walk is still in progress.
LoopLink ==
    /\ pc = "walk" /\ Handled
    /\ opts.follow_symlinks
    /\ cur'.kind = "symlink"
    /\ Canonicalize(fs, cur'.src_path) \in OnStack

\* C5: with follow_symlinks=true, a symlink that resolves to a directory
\* whose walk is in progress makes copy_recursive return SymlinkLoop.
C5_LoopReported == [][LoopLink => result'.kind = "SymlinkLoop"]_vars

(***************************************************************************)
(* C6                                                                      *)
(***************************************************************************)
\* C6 as stated: every tree whose deepest directory is at depth max_depth is
\* copied successfully (into a destination that is absent or empty), and
\* every tree with a directory at depth max_depth+1 fails with DepthExceeded
\* carrying the path of a directory at that depth.
C6_AsStated ==
    (Done /\ DirCall /\ (DestWasAbsent \/ DestWasEmpty)) =>
        /\ TreeDepth = opts.max_depth => result = Ok
        /\ TreeDepth > opts.max_depth =>
              /\ result.kind = "DepthExceeded"
              /\ result.path \in SrcEntries
              /\ Len(result.path) - Len(src) = opts.max_depth + 1

\* C6 amended: when no symlink is followed (follow_symlinks=false, or a tree
\* without symlinks) and the destination is absent or empty, the copy
\* succeeds on every tree whose deepest directory is at depth max_depth or
\* less, and on every tree with a directory at depth max_depth+1 it fails
\* with DepthExceeded carrying the path of a directory of the tree at depth
\* max_depth+1.  Whatever the options, every copy_dir call in progress is at
\* a depth of at most max_depth.
C6_DepthCeiling ==
    /\ \A i \in 1..Len(stack) : stack[i].depth = i - 1 /\ i - 1 <= opts.max_depth
    /\ (Done /\ DirCall /\ NoLinkFollowed /\ (DestWasAbsent \/ DestWasEmpty)) =>
          /\ TreeDepth <= opts.max_depth => result = Ok
          /\ TreeDepth > opts.max_depth =>
                /\ result.kind = "DepthExceeded"
                /\ result.path \in SrcEntries
                /\ fs0[result.path].kind = "dir"
                /\ Len(result.path) - Len(src) = opts.max_depth + 1

\* A tree nested one level deeper than a ceiling of 1 was refused.
C6_Witness ==
    /\ Done /\ DirCall /\ NoLinkFollowed /\ DestWasEmpty
    /\ opts.max_depth = 1 /\ TreeDepth = 2
    /\ result.kind = "DepthExceeded"

(***************************************************************************)
(* C7                                                                      *)
(***************************************************************************)
\* The symlinks of the source tree that resolve outside the source.
Escaping ==
    {p \in SrcEntries :
        /\ fs0[p].kind = "symlink"
        /\ Exists(fs0, p)
        /\ ~IsPrefix(Canonicalize(fs0, src), Canonicalize(fs0, p))
        /\ Canonicalize(fs0, p) # Canonicalize(fs0, src)}

\* C7: with follow_symlinks=true and restrict_symlinks=true nothing is
\* created at the destination path of a symlink that resolves outside the
\* source, and a tree holding nothing but such links is copied successfully.
C7_Contained ==
    (Done /\ DirCall /\ opts.follow_symlinks /\ opts.restrict_symlinks) =>
        /\ \A p \in Escaping : ~LExists(fs0, DstOf(p)) => ~LExists(fs, DstOf(p))
        /\ (SrcEntries = Escaping /\ DestWasEmpty) => result = Ok

(***************************************************************************)
(* C8                                                                      *)
(***************************************************************************)
\* C8: handling a special file creates nothing, does not raise the error
\* count and does not end the call.
C8_SpecialSkipped ==
    [][(Handled /\ cur'.kind = "special") =>
          /\ fs' = fs
          /\ summary'.errors = summary.errors
          /\ result' = result]_vars

(***************************************************************************)
(* C9                                                                      *)
(***************************************************************************)
\* A failed copy of an entry was counted and the walk went on.
CountedFailure ==
    \E m \in stderr : m.msg \in {"falha copiando", "erro recriando symlink"}

\* C9: one call never both counts a failed copy of an entry and aborts with
\* the I/O error of another.
C9_OneMode == ~(CountedFailure /\ result.kind = "Io")

(***************************************************************************)
(* C10                                                                     *)
(***************************************************************************)
\* C10: during the walk the visited set holds exactly the canonical paths of
\* the directories whose copy_dir call is in progress; so SymlinkLoop is
\* returned only for a directory that contains the entry handled last, never
\* for one reached a second time through a sibling entry.
C10_VisitedIsStack ==
    /\ pc = "walk" => visited = OnStack
    /\ result.kind = "SymlinkLoop" =>
          result.path = src \/ IsPrefix(result.path, cur.src_path)

====
